---------------------------- MODULE Spec2Model ----------------------------
(***************************************************************************)
(* Model of the `unsafety` crate (src/src/lib.rs).                         *)
(*                                                                         *)
(* Two parts share one set of variables:                                   *)
(*   - Spec: the record part.  The catalog constants built by              *)
(*     standard_reasons!, user bindings built with UnsafeReason::new and   *)
(*     the combinators bug/message/owner/link/tag, and calls of            *)
(*     unsafe_reason.                                                      *)
(*   - WrapSpec: one unsafe_because! call site: macro matching and         *)
(*     expansion, the type/borrow/unsafety checks of the expansion, and    *)
(*     its statement-by-statement execution.                               *)
(***************************************************************************)
EXTENDS Naturals, Sequences, FiniteSets, TLC

VARIABLES
    catalog,    \* the pub consts of the crate: name -> binding
    imported,   \* the catalog constant the using crate imports (`use`)
    user,       \* bindings of the using crate, in declaration order
    mem,        \* program-observable effects performed so far (a log)
    site,       \* the unsafe_because! invocation being built / run
    stmts,      \* its expansion (a sequence of statements)
    pc,         \* position of the call site
    ip,         \* index of the next statement of the expansion
    bp,         \* index of the next step of the code region
    trace,      \* every evaluation step taken at run time, in order
    outcome     \* what the wrap yielded

recvars  == <<catalog, imported, user>>
wrapvars == <<site, stmts, pc, ip, bp, trace, outcome>>
vars     == <<catalog, imported, user, mem, site, stmts, pc, ip, bp, trace, outcome>>

---------------------------------------------------------------------------
(* Bounds *)

MaxBindings == 2    \* user bindings per program
MaxReasons  == 2    \* justification expressions in a bracketed list
MaxBody     == 2    \* steps in a code region

---------------------------------------------------------------------------
(* pub struct UnsafeReason {} : a struct with no fields.  A struct value   *)
(* is a function from its field names to their values; here the domain is  *)
(* empty.                                                                  *)

UnsafeReason == [f \in {} |-> f]

\* What a reader of a record value finds under attribute f: the values held
\* there, <<>> when the value has no such field.
Attr(r, f) == IF f \in DOMAIN r THEN r[f] ELSE <<>>

\* r with field f set to v.
WithField(r, f, v) == [g \in DOMAIN r \cup {f} |-> IF g = f THEN v ELSE r[g]]

(* Mutants: the same functions, had the struct kept what it is given. *)
new_keeps_id(_reason_id) == [id |-> <<_reason_id>>]
owner_keeps_value(self, _owner) ==
    WithField(self, "owners", Append(Attr(self, "owners"), _owner))
tag_keeps_pair(self, _tag, _value) ==
    WithField(self, "tags", Append(Attr(self, "tags"), <<_tag, _value>>))

\* pub const fn new(_reason_id: &'static str) -> Self { Self {} }
new(_reason_id) == UnsafeReason

\* pub const fn bug(self, _bug_id: &'static str) -> Self { self }
bug(self, _bug_id) == self

\* pub const fn message(self, _message: &'static str) -> Self { self }
message(self, _message) == self

\* pub const fn owner(self, _owner: &'static str) -> Self { self }
owner(self, _owner) == self

\* pub const fn link(self, _url: &'static str) -> Self { self }
link(self, _url) == self

\* pub const fn tag(self, _tag: &'static str, _value: &'static str) -> Self { self }
tag(self, _tag, _value) == self

(* Mutant: a validator that does something observable. *)
unsafe_reason_writes(_reason) == <<"validated">>

\* pub const fn unsafe_reason(_reason: UnsafeReason) { /* nothing */ }
\* The effects its body performs, in order: none.  It returns ().
unsafe_reason(_reason) == <<>>

---------------------------------------------------------------------------
(* Combinator calls written in the using crate. *)

Calls ==
    { [c |-> "owner",   a |-> <<"foo">>],
      [c |-> "owner",   a |-> <<"bar">>],
      [c |-> "bug",     a |-> <<"some_bug_link">>],
      [c |-> "link",    a |-> <<"https://.../some_design_doc.html">>],
      [c |-> "message", a |-> <<"note">>],
      [c |-> "tag",     a |-> <<"key", "v1">>],
      [c |-> "tag",     a |-> <<"key", "v2">>] }

\* The method call  self.c(a...)
Apply(call, self) ==
    CASE call.c = "bug"     -> bug(self, call.a[1])
      [] call.c = "message" -> message(self, call.a[1])
      [] call.c = "owner"   -> owner(self, call.a[1])
      [] call.c = "link"    -> link(self, call.a[1])
      [] call.c = "tag"     -> tag(self, call.a[1], call.a[2])

---------------------------------------------------------------------------
(* Bindings.  val is the UnsafeReason value.  The other fields record what *)
(* the source text said: kind (const or let), whether a let binding still  *)
(* owns its value, the string handed to new at the root of the expression, *)
(* the binding it was derived from and the combinator calls applied.       *)

NoRef == <<"none", "">>

Binding(kind, val, id_arg, from, supplied) ==
    [kind |-> kind, live |-> TRUE, val |-> val, id_arg |-> id_arg,
     from |-> from, supplied |-> supplied]

CatalogNames ==
    { "USES_FOREIGN_CODE", "USED_BY_FOREIGN_CODE", "PERFORMANCE",
      "IMPLEMENTS_SAFE_TRANSMUTE", "IMPLEMENTS_CONTAINER",
      "IMPLEMENTS_DEVICE_DRIVER", "IMPLEMENTS_MEMORY_MANAGER",
      "USES_VECTOR_INTRINSICS" }

\* macro_rules! standard_reasons:
\*   pub const $name: UnsafeReason = UnsafeReason::new(stringify!($name));
standard_reasons(names) ==
    [name \in names |-> Binding("const", new(name), name, NoRef, <<>>)]

UserIds == {"MY_REASON"}
Kinds   == {"const", "let"}

\* The names in scope in the using crate.
CatRefs  == {<<"cat", imported>>}
UserRefs == {<<"usr", i>> : i \in 1..Len(user)}
Refs     == CatRefs \cup UserRefs

Lookup(ref) == IF ref[1] = "cat" THEN catalog[ref[2]] ELSE user[ref[2]]

(* Mutant: a by-value use that consumes constants too. *)
Use_moves_consts(b) == [b EXCEPT !.live = FALSE]

\* A by-value use of a binding (`self`, `_reason: UnsafeReason`).  The
\* struct derives neither Copy nor Clone: a let binding is moved out of, a
\* const is instantiated afresh at each use.
Use(b) == IF b.kind = "const" THEN b ELSE [b EXCEPT !.live = FALSE]

\* The bindings after a by-value use of ref.
CatalogAfterUse(ref) ==
    IF ref[1] = "cat" THEN [catalog EXCEPT ![ref[2]] = Use(@)] ELSE catalog
UserAfterUse(ref) ==
    IF ref[1] = "usr" THEN [user EXCEPT ![ref[2]] = Use(@)] ELSE user

---------------------------------------------------------------------------
(* Record part: actions *)

WrapIdle ==
    /\ site = [form |-> "none"]
    /\ stmts = <<>>
    /\ pc = "idle"
    /\ ip = 0
    /\ bp = 0
    /\ trace = <<>>
    /\ outcome = [kind |-> "none"]

Init ==
    /\ catalog = standard_reasons(CatalogNames)
    /\ imported \in CatalogNames
    /\ user = <<>>
    /\ mem = <<>>
    /\ WrapIdle

\* const NAME: UnsafeReason = UnsafeReason::new("id");   or   let name = ...
Construct(kind, id) ==
    /\ Len(user) < MaxBindings
    /\ user' = Append(user, Binding(kind, new(id), id, NoRef, <<>>))
    /\ UNCHANGED <<catalog, imported, mem, wrapvars>>

\* const NAME: UnsafeReason = X.c(a);   or   let name = X.c(a);
\* A const initializer cannot name a let binding.
Derive(kind, ref, call) ==
    /\ Len(user) < MaxBindings
    /\ ref \in Refs
    /\ Lookup(ref).live
    /\ kind = "const" => Lookup(ref).kind = "const"
    /\ LET x == Lookup(ref) IN
         user' = Append(UserAfterUse(ref),
                        Binding(kind, Apply(call, x.val), x.id_arg, ref,
                                Append(x.supplied, call)))
    /\ catalog' = CatalogAfterUse(ref)
    /\ UNCHANGED <<imported, mem, wrapvars>>

\* unsafe_reason(X);
Validate(ref) ==
    /\ ref \in Refs
    /\ Lookup(ref).live
    /\ mem' = mem \o unsafe_reason(Lookup(ref).val)
    /\ user' = UserAfterUse(ref)
    /\ catalog' = CatalogAfterUse(ref)
    /\ UNCHANGED <<imported, wrapvars>>

Next ==
    \/ \E kind \in Kinds, id \in UserIds : Construct(kind, id)
    \/ \E kind \in Kinds, ref \in Refs, call \in Calls : Derive(kind, ref, call)
    \/ \E ref \in Refs : Validate(ref)

Spec == Init /\ [][Next]_vars

---------------------------------------------------------------------------
(* Wrap part: one unsafe_because! call site.                               *)
(*                                                                         *)
(* A justification expression is a path to a binding, a string literal, a  *)
(* call of an `unsafe fn() -> UnsafeReason`, or (through the second arm of *)
(* the macro) a bracketed array expression.                                *)

Expr(k, ref) == [k |-> k, ref |-> ref]

ReasonExprs ==
    { Expr("path", <<"cat", "PERFORMANCE">>),
      Expr("path", <<"cat", "IMPLEMENTS_DEVICE_DRIVER">>),
      Expr("path", <<"usr", 1>>),
      Expr("str", NoRef),
      Expr("unsafe_call", NoRef) }

\* The expression `[e1, ..., en]`.
ArrayExpr(elems) == Expr("array", NoRef)

TypeOf(e) ==
    CASE e.k = "path"        -> "UnsafeReason"
      [] e.k = "unsafe_call" -> "UnsafeReason"
      [] e.k = "str"         -> "&'static str"
      [] e.k = "array"       -> "[T; N]"

\* A code region: steps run in order, then the tail expression's value.
BodyOps    == {"use_foreign_object", "println", "panic"}
TailValues == {"unit", "forty_two"}

SeqsUpTo(S, n) == UNION {[1..k -> S] : k \in 0..n}

Bodies == [steps : SeqsUpTo(BodyOps, MaxBody), tail : TailValues]

\* What is written between the macro's delimiters:  X => body  where X is
\* a bracketed group `[e1, ..., en]` (n >= 0) or another expression.
Inputs ==
    [form : {"bracket"}, reasons : SeqsUpTo(ReasonExprs, MaxReasons), body : Bodies]
    \cup
    [form : {"expr"}, reasons : {<<e>> : e \in ReasonExprs}, body : Bodies]

\* Statements of an expansion.
CallStmt(reason) ==
    [op |-> "unsafe_reason", arg |-> reason, in_unsafe |-> FALSE, tail |-> FALSE,
     body |-> <<>>]
UnsafeBlock(body) ==
    [op |-> "unsafe_block", arg |-> Expr("none", NoRef), in_unsafe |-> TRUE,
     tail |-> TRUE, body |-> body]

(* Mutants of the macro arms. *)
list_arm_reversed(reasons, body) ==
    [i \in 1..Len(reasons) |-> CallStmt(reasons[Len(reasons) + 1 - i])]
        \o <<UnsafeBlock(body)>>
list_arm_first_only(reasons, body) ==
    <<CallStmt(reasons[1]), UnsafeBlock(body)>>
single_arm_discards(reason, body) ==
    <<CallStmt(reason), [UnsafeBlock(body) EXCEPT !.tail = FALSE]>>

\* First arm:  [ $($reason:expr),+ ] => $($body:tt)*   expands to
\*   { $( $crate::unsafe_reason($reason); )* unsafe { $($body)* } }
list_arm(reasons, body) ==
    [i \in 1..Len(reasons) |-> CallStmt(reasons[i])] \o <<UnsafeBlock(body)>>

\* Second arm:  $reason:expr => $($body:tt)*   expands to
\*   { $crate::unsafe_reason($reason); unsafe { $($body)* } }
single_arm(reason, body) ==
    <<CallStmt(reason), UnsafeBlock(body)>>

(* Mutant: the first arm written with `*` in place of `+`. *)
unsafe_because_star(input) ==
    IF input.form = "bracket"
    THEN list_arm(input.reasons, input.body)
    ELSE single_arm(input.reasons[1], input.body)

\* macro_rules! unsafe_because: the arms are tried in order.  The first
\* needs a bracketed group holding at least one expression; anything else
\* falls to the second, where the whole of X is one expression.
unsafe_because(input) ==
    IF input.form = "bracket" /\ Len(input.reasons) >= 1
    THEN list_arm(input.reasons, input.body)
    ELSE single_arm(IF input.form = "bracket"
                    THEN ArrayExpr(input.reasons)
                    ELSE input.reasons[1],
                    input.body)

(* Mutant: a validator generic in its argument. *)
Accepts_any(e) == TRUE

\* pub const fn unsafe_reason(_reason: UnsafeReason): the argument types
\* the function accepts.
Accepts(e) == TypeOf(e) = "UnsafeReason"

\* The value a justification expression evaluates to.
EvalExpr(e) ==
    CASE e.k = "path"        -> Lookup(e.ref).val
      [] e.k = "unsafe_call" -> UnsafeReason
      [] e.k = "str"         -> "because"
      [] e.k = "array"       -> <<>>

\* The checks the expansion must pass to build.
TypeChecks(ss) ==
    \A i \in 1..Len(ss) : ss[i].op = "unsafe_reason" => Accepts(ss[i].arg)
UnsafetyChecks(ss) ==
    \A i \in 1..Len(ss) :
        (ss[i].op = "unsafe_reason" /\ ss[i].arg.k = "unsafe_call") => ss[i].in_unsafe
MoveChecks(ss) ==
    \A i \in 1..Len(ss) :
        (ss[i].op = "unsafe_reason" /\ ss[i].arg.k = "path") =>
            /\ Lookup(ss[i].arg.ref).live
            /\ Lookup(ss[i].arg.ref).kind = "let" =>
                 \A j \in 1..Len(ss) :
                    (j # i /\ ss[j].op = "unsafe_reason") => ss[j].arg # ss[i].arg
Builds(ss) == TypeChecks(ss) /\ UnsafetyChecks(ss) /\ MoveChecks(ss)

WrapInit ==
    /\ catalog = standard_reasons(CatalogNames)
    /\ imported = "PERFORMANCE"
    /\ user = <<Binding("let", new("MY_REASON"), "MY_REASON", NoRef, <<>>)>>
    /\ mem = <<>>
    /\ WrapIdle

\* The call site is expanded and checked.
Invoke(input) ==
    /\ pc = "idle"
    /\ site' = input
    /\ stmts' = unsafe_because(input)
    /\ IF Builds(unsafe_because(input))
       THEN pc' = "run" /\ ip' = 1
       ELSE pc' = "rejected" /\ ip' = 0
    /\ UNCHANGED <<recvars, mem, bp, trace, outcome>>

\* The position after statement ip.
AfterStmt == IF ip + 1 > Len(stmts) THEN "done" ELSE "run"

\* $crate::unsafe_reason($reason);
StepValidator ==
    /\ pc = "run"
    /\ stmts[ip].op = "unsafe_reason"
    /\ LET e == stmts[ip].arg IN
         /\ mem' = mem \o unsafe_reason(EvalExpr(e))
         /\ user' = UserAfterUse(e.ref)
         /\ catalog' = CatalogAfterUse(e.ref)
         /\ trace' = Append(trace, [ev |-> "unsafe_reason", arg |-> e, op |-> "",
                                    in_unsafe |-> stmts[ip].in_unsafe])
    /\ outcome' = [kind |-> "value", v |-> "unit"]
    /\ ip' = ip + 1
    /\ pc' = AfterStmt
    /\ UNCHANGED <<imported, site, stmts, bp>>

\* unsafe {
EnterUnsafe ==
    /\ pc = "run"
    /\ stmts[ip].op = "unsafe_block"
    /\ pc' = "in_unsafe"
    /\ bp' = 1
    /\ UNCHANGED <<recvars, mem, site, stmts, ip, trace, outcome>>

\* one step of $($body)*
StepBody ==
    /\ pc = "in_unsafe"
    /\ bp <= Len(stmts[ip].body.steps)
    /\ LET op == stmts[ip].body.steps[bp] IN
         /\ trace' = Append(trace, [ev |-> "body", arg |-> Expr("none", NoRef),
                                    op |-> op,
                                    in_unsafe |-> stmts[ip].in_unsafe])
         /\ IF op = "panic"
            THEN /\ outcome' = [kind |-> "panicked", v |-> "unit"]
                 /\ pc' = "done"
                 /\ UNCHANGED <<mem, bp>>
            ELSE /\ mem' = Append(mem, op)
                 /\ bp' = bp + 1
                 /\ UNCHANGED <<pc, outcome>>
    /\ UNCHANGED <<recvars, site, stmts, ip>>

\* }  : the block yields its tail expression
LeaveUnsafe ==
    /\ pc = "in_unsafe"
    /\ bp > Len(stmts[ip].body.steps)
    /\ outcome' = [kind |-> "value",
                   v |-> IF stmts[ip].tail THEN stmts[ip].body.tail ELSE "unit"]
    /\ ip' = ip + 1
    /\ pc' = AfterStmt
    /\ UNCHANGED <<recvars, mem, site, stmts, bp, trace>>

WrapNext ==
    \/ \E input \in Inputs : Invoke(input)
    \/ StepValidator
    \/ EnterUnsafe
    \/ StepBody
    \/ LeaveUnsafe

WrapSpec == WrapInit /\ [][WrapNext]_vars

\* The region evaluated directly, `unsafe { R }`, from step i with effects m.
RECURSIVE EvalRegion(_, _, _)
EvalRegion(body, i, m) ==
    IF i > Len(body.steps)
    THEN [mem |-> m, outcome |-> [kind |-> "value", v |-> body.tail]]
    ELSE IF body.steps[i] = "panic"
         THEN [mem |-> m, outcome |-> [kind |-> "panicked", v |-> "unit"]]
         ELSE EvalRegion(body, i + 1, Append(m, body.steps[i]))

\* A whole expansion evaluated from statement i.
RECURSIVE EvalStmts(_, _, _, _)
EvalStmts(ss, i, m, last) ==
    IF i > Len(ss)
    THEN [mem |-> m, outcome |-> last]
    ELSE IF ss[i].op = "unsafe_reason"
         THEN EvalStmts(ss, i + 1, m \o unsafe_reason(EvalExpr(ss[i].arg)),
                        [kind |-> "value", v |-> "unit"])
         ELSE LET r == EvalRegion(ss[i].body, 1, m) IN
              IF r.outcome.kind = "panicked"
              THEN r
              ELSE EvalStmts(ss, i + 1, r.mem,
                             IF ss[i].tail THEN r.outcome
                             ELSE [kind |-> "value", v |-> "unit"])

---------------------------------------------------------------------------
(* Properties of the record part (checked under Spec) *)

\* The attributes the specification gives a justification record.
AttrNames == {"id", "owners", "bugs", "links", "tags", "messages"}

\* The attribute a combinator is documented to extend, and the entry it is
\* given for it.
FieldOf(call) ==
    CASE call.c = "bug"     -> "bugs"
      [] call.c = "message" -> "messages"
      [] call.c = "owner"   -> "owners"
      [] call.c = "link"    -> "links"
      [] call.c = "tag"     -> "tags"
EntryOf(call) == IF call.c = "tag" THEN call.a ELSE call.a[1]

Derived(i) == user[i].supplied # <<>>
LastCall(b) == b.supplied[Len(b.supplied)]

\* The entries the calls in `supplied` hand to attribute f, in order.
RECURSIVE SuppliedFor(_, _)
SuppliedFor(supplied, f) ==
    IF supplied = <<>> THEN <<>>
    ELSE LET rest == SuppliedFor(Tail(supplied), f) IN
         IF FieldOf(Head(supplied)) = f
         THEN <<EntryOf(Head(supplied))>> \o rest
         ELSE rest

\* s occurs in t as a subsequence.
RECURSIVE IsSubseq(_, _)
IsSubseq(s, t) ==
    IF s = <<>> THEN TRUE
    ELSE IF t = <<>> THEN FALSE
    ELSE IF Head(s) = Head(t) THEN IsSubseq(Tail(s), Tail(t))
    ELSE IsSubseq(s, Tail(t))

ValueAttrs == AttrNames \ {"id"}

\* C2 as stated: c(X, a) leaves X usable and returns X's attributes plus
\* exactly the one new value.
C2_AsStated ==
    \A i \in 1..Len(user) :
        Derived(i) =>
            LET d == user[i]
                x == Lookup(d.from)
                c == LastCall(d)
            IN /\ x.live
               /\ Attr(d.val, FieldOf(c)) = Append(Attr(x.val, FieldOf(c)), EntryOf(c))
               /\ \A f \in AttrNames \ {FieldOf(c)} : Attr(d.val, f) = Attr(x.val, f)

\* C2, amended: c(X, a) never alters X's value; a const X stays usable
\* while a let-bound X is moved into the call; the returned record equals X
\* (nothing from a is added to it).
C2_NonMutation ==
    [][ \A ref \in Refs :
          LET x == Lookup(ref) IN
            /\ Lookup(ref)'.val = x.val
            /\ Lookup(ref)'.id_arg = x.id_arg
            /\ Lookup(ref)'.supplied = x.supplied
            /\ x.kind = "const" => Lookup(ref)'.live = x.live
            /\ ( /\ Len(user') = Len(user) + 1
                 /\ user'[Len(user')].supplied # <<>>
                 /\ user'[Len(user')].from = ref )
               => /\ user'[Len(user')].val = x.val
                  /\ x.kind = "let" => ~Lookup(ref)'.live
      ]_vars

C2_Witness ==
    /\ Len(user) = 2
    /\ user[1].kind = "let" /\ ~user[1].live
    /\ Derived(2) /\ user[2].from = <<"usr", 1>>

\* C3 as stated: every attribute collection of a derived record contains
\* every value supplied to the corresponding combinator, in order.
C3_AsStated ==
    \A i \in 1..Len(user) :
        \A f \in ValueAttrs :
            IsSubseq(SuppliedFor(user[i].supplied, f), Attr(user[i].val, f))

\* C3, amended: whatever sequence of combinators is applied, the result is
\* the record it started from: no attribute collection holds any value.
C3_NothingAccumulates ==
    \A i \in 1..Len(user) :
        Derived(i) =>
            /\ user[i].val = Lookup(user[i].from).val
            /\ \A f \in ValueAttrs : Attr(user[i].val, f) = <<>>

C3_Witness ==
    \E i \in 1..Len(user) :
        user[i].supplied = << [c |-> "owner", a |-> <<"foo">>],
                              [c |-> "owner", a |-> <<"bar">>] >>

\* C4 as stated: every catalog entry has id equal to its declared name and
\* no other attribute, ids are pairwise distinct, and derived records carry
\* the id of their entry.
C4_AsStated ==
    /\ \A n \in CatalogNames :
          /\ Attr(catalog[n].val, "id") = <<n>>
          /\ \A f \in ValueAttrs : Attr(catalog[n].val, f) = <<>>
    /\ \A n, m \in CatalogNames :
          n # m => Attr(catalog[n].val, "id") # Attr(catalog[m].val, "id")
    /\ \A i \in 1..Len(user) :
          user[i].id_arg \in CatalogNames =>
              Attr(user[i].val, "id") = <<user[i].id_arg>>

\* C4, amended: every catalog entry is built by new from its own declared
\* name (the names are pairwise distinct), but the value keeps neither the
\* id nor any attribute, so all entries are one and the same empty value;
\* derivations leave the entry unchanged and usable, and every record
\* derived from an entry equals that entry.
C4_CatalogStability ==
    /\ \A n \in CatalogNames :
          /\ catalog[n].id_arg = n
          /\ catalog[n].kind = "const"
          /\ catalog[n].live
          /\ catalog[n].supplied = <<>>
          /\ \A f \in AttrNames : Attr(catalog[n].val, f) = <<>>
    /\ \A n, m \in CatalogNames :
          /\ catalog[n].val = catalog[m].val
          /\ n # m => catalog[n].id_arg # catalog[m].id_arg
    /\ \A i \in 1..Len(user) :
          user[i].id_arg \in CatalogNames =>
              /\ Derived(i)
              /\ user[i].val = catalog[user[i].id_arg].val

C4_Witness ==
    /\ Len(user) = 2
    /\ user[1].from = <<"cat", "USES_FOREIGN_CODE">>
    /\ user[2].from = <<"usr", 1>>
    /\ user[2].id_arg = "USES_FOREIGN_CODE"

TagPairs(b) == SuppliedFor(b.supplied, "tags")

\* Two tag calls with one key and different values were applied.
SameKeyTwice(b) ==
    \E i, j \in 1..Len(TagPairs(b)) :
        /\ i < j
        /\ TagPairs(b)[i][1] = TagPairs(b)[j][1]
        /\ TagPairs(b)[i][2] # TagPairs(b)[j][2]

\* C8 as stated: after tag(k, v1) and tag(k, v2) the record retains both
\* (k, v1) and (k, v2).
C8_AsStated ==
    \A i \in 1..Len(user) :
        SameKeyTwice(user[i]) =>
            \A p \in 1..Len(TagPairs(user[i])) :
                \E q \in 1..Len(Attr(user[i].val, "tags")) :
                    Attr(user[i].val, "tags")[q] = TagPairs(user[i])[p]

\* C8, amended: a record holds no tag entry at all; tag(k, v) returns its
\* receiver as it is, so after tag(k, v1) and tag(k, v2) the record retains
\* neither pair (and there is nothing a later tag could overwrite).
C8_NoTagKept ==
    \A i \in 1..Len(user) :
        /\ Len(Attr(user[i].val, "tags")) = 0
        /\ (Derived(i) /\ LastCall(user[i]).c = "tag") =>
              Attr(user[i].val, "tags") = Attr(Lookup(user[i].from).val, "tags")

C8_Witness ==
    \E i \in 1..Len(user) :
        user[i].supplied = << [c |-> "tag", a |-> <<"key", "v1">>],
                              [c |-> "tag", a |-> <<"key", "v2">>] >>

\* C10: constructions, combinator applications and validations leave the
\* observable state as it was, and no record value has a field.
C10_ZeroRuntimeState ==
    /\ mem = <<>>
    /\ \A n \in CatalogNames : DOMAIN catalog[n].val = {}
    /\ \A i \in 1..Len(user) : DOMAIN user[i].val = {}

\* A let binding was constructed and validated (moved into unsafe_reason,
\* nothing being derived from it), then a record derived from the catalog.
C10_Witness ==
    /\ Len(user) = 2
    /\ ~Derived(1) /\ user[1].kind = "let" /\ ~user[1].live
    /\ Derived(2) /\ user[2].from[1] = "cat"

---------------------------------------------------------------------------
(* Properties of the wrap part (checked under WrapSpec) *)

Direct == EvalRegion(site.body, 1, <<>>)

Validations == SelectSeq(trace, LAMBDA e : e.ev = "unsafe_reason")
BodySteps   == SelectSeq(trace, LAMBDA e : e.ev = "body")

\* The steps of the region that run when it is evaluated directly.
RECURSIVE StepsRun(_, _)
StepsRun(steps, i) ==
    IF i > Len(steps) THEN <<>>
    ELSE IF steps[i] = "panic" THEN <<"panic">>
    ELSE <<steps[i]>> \o StepsRun(steps, i + 1)

C5_EmptyListRejected ==
    (site.form = "bracket" /\ site.reasons = <<>>) =>
        /\ pc = "rejected"
        /\ trace = <<>>
        /\ mem = <<>>
        /\ outcome.kind = "none"

C5_Witness ==
    /\ site.form = "bracket"
    /\ site.reasons = <<>>
    /\ site.body.steps # <<>>
    /\ pc = "rejected"

IllTyped == \E i \in 1..Len(site.reasons) : TypeOf(site.reasons[i]) # "UnsafeReason"

C9_ValidationOrdering ==
    /\ (site.form # "none" /\ pc # "rejected") =>
          /\ Len(Validations) <= Len(site.reasons)
          /\ [i \in 1..Len(Validations) |-> Validations[i].arg]
                = SubSeq(site.reasons, 1, Len(Validations))
          /\ \A i \in 1..Len(Validations) : ~Validations[i].in_unsafe
          /\ \A i \in 1..Len(BodySteps) : BodySteps[i].in_unsafe
          /\ (pc \in {"in_unsafe", "done"} \/ BodySteps # <<>>) =>
                Len(Validations) = Len(site.reasons)
          /\ \A i, j \in 1..Len(trace) :
                (trace[i].ev = "body" /\ trace[j].ev = "unsafe_reason") => j < i
    /\ (site.form # "none"
        /\ \E i \in 1..Len(site.reasons) : site.reasons[i].k = "unsafe_call") =>
          pc = "rejected"

C9_Witness ==
    /\ pc = "done"
    /\ site.form = "bracket"
    /\ Len(site.reasons) = 2
    /\ site.reasons[1] # site.reasons[2]
    /\ Len(BodySteps) = 2

=============================================================================
